---- MODULE Spec2Model ----
(***************************************************************************)
(* Model of the workout CRUD backend (backend/server.py): a FastAPI        *)
(* router over one MongoDB collection, db.workouts, plus the startup       *)
(* seeding routine.  Each handler is one action; the collection, the       *)
(* ObjectId generator and the wall clock are the state.                    *)
(***************************************************************************)
EXTENDS Integers, Sequences, FiniteSets, TLC

(***************************************************************************)
(* Bounds of the model.                                                    *)
(***************************************************************************)
\* number of ObjectIds the store may hand out
MaxId == 9
\* number of times the clock may advance
MaxClock == 1
\* number of API requests served
MaxRequests == 2
\* number of custom workouts beyond the length of a list
MaxOver == 1
\* number of handlers and seeding routines that run step by step
MaxTasks == 2

(***************************************************************************)
(* Program and store constants.                                            *)
(***************************************************************************)
\* an ObjectId is 12 bytes, written as 24 hex digits
OidLen == 24
\* to_list(100)
ListCap == 100
\* datetime.utcnow() has microsecond resolution, a BSON date milliseconds
MicrosPerMilli == 1000
\* the clock advances in steps of one and a half milliseconds
TickMicros == 1500

(***************************************************************************)
(* Option values: None is <<>>, a present value v is <<v>>.                *)
(***************************************************************************)
None == <<>>
Some(v) == <<v>>

(***************************************************************************)
(* ObjectId: bson.ObjectId(str) accepts exactly the strings of 24 hex      *)
(* digits (either case); the value is the 96-bit number they write, and    *)
(* str(ObjectId) writes it as 24 lower-case hex digits.  Strings that are  *)
(* used as ids are sequences of characters.                                *)
(***************************************************************************)
HexLower == <<"0","1","2","3","4","5","6","7","8","9","a","b","c","d","e","f">>
HexUpper == <<"0","1","2","3","4","5","6","7","8","9","A","B","C","D","E","F">>

HexChars == {HexLower[i] : i \in 1..16} \cup {HexUpper[i] : i \in 1..16}

\* int(c, 16)
HexValue == [c \in HexChars |-> (CHOOSE i \in 1..16 : c \in {HexLower[i], HexUpper[i]}) - 1]

\* ObjectId.is_valid for a str argument
IsValidObjectId(s) == Len(s) = OidLen /\ \A i \in 1..Len(s) : s[i] \in HexChars

RECURSIVE HexNumber(_, _)
HexNumber(s, k) == IF k = 0 THEN 0 ELSE HexNumber(s, k - 1) * 16 + HexValue[s[k]]

\* ObjectId(workout_id): the ObjectId, or None where it raises InvalidId
ParseObjectId(s) == IF IsValidObjectId(s) THEN Some(HexNumber(s, Len(s))) ELSE None

\* str(oid), for the ObjectIds of the model (below 16^4)
ObjectIdStr(oid) ==
  [i \in 1..OidLen |->
     IF OidLen - i >= 4 THEN "0" ELSE HexLower[((oid \div (16 ^ (OidLen - i))) % 16) + 1]]

(***************************************************************************)
(* The catalog of initialize_predefined_workouts.                          *)
(***************************************************************************)
Ex(n, s, r) == [name |-> n, sets |-> s, reps |-> r, weight |-> "", notes |-> ""]

CatalogABC ==
  [name |-> "ABC - Clássico", type |-> "predefined", splits |-> <<
    [day |-> "A - Peito e Tríceps", exercises |-> <<
       Ex("Supino Reto", 4, "8-12"), Ex("Supino Inclinado", 3, "10-12"),
       Ex("Crucifixo", 3, "12-15"), Ex("Tríceps Testa", 3, "10-12"),
       Ex("Tríceps Corda", 3, "12-15") >>],
    [day |-> "B - Costas e Bíceps", exercises |-> <<
       Ex("Barra Fixa", 4, "8-10"), Ex("Remada Curvada", 4, "8-12"),
       Ex("Puxada Frontal", 3, "10-12"), Ex("Rosca Direta", 3, "10-12"),
       Ex("Rosca Martelo", 3, "12-15") >>],
    [day |-> "C - Pernas e Ombros", exercises |-> <<
       Ex("Agachamento Livre", 4, "8-12"), Ex("Leg Press", 4, "10-12"),
       Ex("Cadeira Extensora", 3, "12-15"), Ex("Desenvolvimento", 4, "8-12"),
       Ex("Elevação Lateral", 3, "12-15") >>] >>]

CatalogABCDE ==
  [name |-> "ABCDE - Avançado", type |-> "predefined", splits |-> <<
    [day |-> "A - Peito", exercises |-> <<
       Ex("Supino Reto", 4, "8-10"), Ex("Supino Inclinado", 4, "8-10"),
       Ex("Crucifixo Inclinado", 3, "10-12"), Ex("Crossover", 3, "12-15") >>],
    [day |-> "B - Costas", exercises |-> <<
       Ex("Barra Fixa", 4, "8-10"), Ex("Remada Curvada", 4, "8-10"),
       Ex("Puxada Frontal", 3, "10-12"), Ex("Remada Baixa", 3, "10-12") >>],
    [day |-> "C - Pernas", exercises |-> <<
       Ex("Agachamento Livre", 4, "8-10"), Ex("Leg Press", 4, "10-12"),
       Ex("Cadeira Extensora", 3, "12-15"), Ex("Mesa Flexora", 3, "12-15"),
       Ex("Panturrilha em Pé", 4, "15-20") >>],
    [day |-> "D - Ombros", exercises |-> <<
       Ex("Desenvolvimento", 4, "8-10"), Ex("Elevação Lateral", 4, "12-15"),
       Ex("Elevação Frontal", 3, "12-15"), Ex("Crucifixo Inverso", 3, "12-15") >>],
    [day |-> "E - Braços", exercises |-> <<
       Ex("Rosca Direta", 4, "8-12"), Ex("Rosca Alternada", 3, "10-12"),
       Ex("Tríceps Testa", 4, "8-12"), Ex("Tríceps Corda", 3, "12-15") >>] >>]

CatalogPPL ==
  [name |-> "Push/Pull/Legs", type |-> "predefined", splits |-> <<
    [day |-> "Push - Empurrar", exercises |-> <<
       Ex("Supino Reto", 4, "8-10"), Ex("Desenvolvimento", 4, "8-10"),
       Ex("Supino Inclinado", 3, "10-12"), Ex("Elevação Lateral", 3, "12-15"),
       Ex("Tríceps Corda", 3, "12-15") >>],
    [day |-> "Pull - Puxar", exercises |-> <<
       Ex("Barra Fixa", 4, "8-10"), Ex("Remada Curvada", 4, "8-10"),
       Ex("Puxada Frontal", 3, "10-12"), Ex("Rosca Direta", 3, "10-12"),
       Ex("Rosca Martelo", 3, "12-15") >>],
    [day |-> "Legs - Pernas", exercises |-> <<
       Ex("Agachamento Livre", 4, "8-10"), Ex("Leg Press", 4, "10-12"),
       Ex("Cadeira Extensora", 3, "12-15"), Ex("Mesa Flexora", 3, "12-15"),
       Ex("Panturrilha", 4, "15-20") >>] >>]

CatalogUpperLower ==
  [name |-> "Upper/Lower", type |-> "predefined", splits |-> <<
    [day |-> "Upper - Parte Superior", exercises |-> <<
       Ex("Supino Reto", 4, "8-10"), Ex("Remada Curvada", 4, "8-10"),
       Ex("Desenvolvimento", 3, "10-12"), Ex("Puxada Frontal", 3, "10-12"),
       Ex("Rosca Direta", 3, "10-12"), Ex("Tríceps Corda", 3, "12-15") >>],
    [day |-> "Lower - Parte Inferior", exercises |-> <<
       Ex("Agachamento Livre", 4, "8-10"), Ex("Leg Press", 4, "10-12"),
       Ex("Stiff", 3, "10-12"), Ex("Cadeira Extensora", 3, "12-15"),
       Ex("Mesa Flexora", 3, "12-15"), Ex("Panturrilha", 4, "15-20") >>] >>]

\* the list predefined_workouts, before "createdAt" is filled in
predefined_workouts == <<CatalogABC, CatalogABCDE, CatalogPPL, CatalogUpperLower>>

CatalogNames == {predefined_workouts[i].name : i \in 1..Len(predefined_workouts)}

(***************************************************************************)
(* The id strings of the model.                                            *)
(***************************************************************************)
NotAnId == <<"n","o","t","-","a","n","-","i","d">>

\* the largest ObjectId of a collection that holds the catalog and MaxOver
\* more custom workouts than a list returns
LargestId == Len(predefined_workouts) + ListCap + MaxOver

\* str(oid) of every ObjectId the store can hand out, of one more and of
\* ObjectId 0 (never handed out)
IdStrings ==
  [n \in 0..((IF MaxId > LargestId THEN MaxId ELSE LargestId) + 1) |-> ObjectIdStr(n)]

\* the ids of the requests: the id strings up to MaxId + 1 and a malformed one
AllRequestIds == {IdStrings[n] : n \in 0..(MaxId + 1)} \cup {NotAnId}

\* ParseObjectId, tabulated over the ids of the requests
ObjectIdTable == [s \in AllRequestIds |-> ParseObjectId(s)]

ObjectId(s) == ObjectIdTable[s]

(***************************************************************************)
(* Pydantic models.  A JSON body is a record of options: None stands for a *)
(* key that is absent or null.  An exercise of a request may leave out     *)
(* "weight" and "notes".                                                   *)
(***************************************************************************)
WorkoutTypes == {"predefined", "custom"}

\* class Exercise: weight and notes default to ""
Exercise(e) ==
  [name   |-> e.name,
   sets   |-> e.sets,
   reps   |-> e.reps,
   weight |-> IF "weight" \in DOMAIN e THEN e.weight ELSE "",
   notes  |-> IF "notes" \in DOMAIN e THEN e.notes ELSE ""]

\* class WorkoutSplit
WorkoutSplit(sp) ==
  [day |-> sp.day, exercises |-> [i \in 1..Len(sp.exercises) |-> Exercise(sp.exercises[i])]]

\* List[WorkoutSplit], as .dict() gives it
SplitsDict(splits) == [i \in 1..Len(splits) |-> WorkoutSplit(splits[i])]

\* class WorkoutCreate: does the body validate?  name: str, type: Literal, splits: List
WorkoutCreateValid(body) ==
  /\ body.name # None
  /\ body.type # None /\ body.type[1] \in WorkoutTypes
  /\ body.splits # None

\* WorkoutCreate(...).dict()
WorkoutCreate(body) ==
  [name |-> body.name[1], type |-> body.type[1], splits |-> SplitsDict(body.splits[1])]

\* class WorkoutUpdate: two optional fields; any other key of the body is ignored
WorkoutUpdate(body) ==
  [name   |-> body.name,
   splits |-> IF body.splits = None THEN None ELSE Some(SplitsDict(body.splits[1]))]

\* update_data = {k: v for k, v in workout_update.dict().items() if v is not None}
update_data(wu) == {k \in {"name", "splits"} : wu[k] # None}

\* serialize_workout: "_id" becomes the string "id"
serialize_workout(oid, doc) ==
  [id |-> IdStrings[oid], name |-> doc.name, type |-> doc.type, splits |-> doc.splits,
   createdAt |-> doc.createdAt]

(***************************************************************************)
(* Outcomes of a handler body, and the handler boundary.                   *)
(***************************************************************************)
\* return value, sent with status 200
Return(body) == [raised |-> FALSE, status |-> 200, body |-> body]
\* raise HTTPException(status_code=code)
HTTPException(code) == [raised |-> TRUE, status |-> code, body |-> None]
\* bson.errors.InvalidId: any exception that is not an HTTPException; if it
\* escaped the handler the framework would answer 500
InvalidId == [raised |-> TRUE, status |-> 500, body |-> None]
\* request validation failed before the handler ran
RequestValidationError == [raised |-> TRUE, status |-> 422, body |-> None]

\* except Exception as e: raise HTTPException(status_code=400, detail=str(e))
\* HTTPException is itself an Exception, so it is caught here too
ExceptException(out) == IF out.raised THEN HTTPException(400) ELSE out

\* what the client sees
Response(out) == [status |-> out.status, body |-> out.body]

(***************************************************************************)
(* State.                                                                  *)
(***************************************************************************)
VARIABLES
  workouts,   \* db.workouts: ObjectId -> document
  nextId,     \* number of the next ObjectId the store hands out
  clock,      \* datetime.utcnow(), in microseconds
  booted,     \* has the startup hook run (the API is served only after it)
  req,        \* the last request served (history)
  resp,       \* its response (history)
  before,     \* db.workouts as it was before the last request (history)
  born,       \* ObjectId -> type and createdAt at insertion (history)
  deleted,    \* ObjectIds removed by a successful delete (history)
  seedings,   \* number of times the catalog was bulk-inserted (history)
  requests,   \* number of API requests served (history)
  touched,    \* has a request created, renamed or deleted a predefined workout (history)
  tasks       \* the coroutines that run one store operation at a time

vars == <<workouts, nextId, clock, booted, req, resp, before, born, deleted,
          seedings, requests, touched, tasks>>

\* a BSON date keeps milliseconds only
BsonDate(t) == (t \div MicrosPerMilli) * MicrosPerMilli

\* the document as the store keeps it
Bson(doc) == [doc EXCEPT !.createdAt = BsonDate(@)]

\* count_documents({"type": t})
count_documents(coll, t) == Cardinality({o \in DOMAIN coll : coll[o].type = t})

\* find_one({"_id": oid})
find_one(coll, oid) == IF oid \in DOMAIN coll THEN Some(coll[oid]) ELSE None

\* insert_one / insert_many: the documents get the next ObjectIds n, n+1, ...
insert_many(coll, docs, n) ==
  [o \in DOMAIN coll \cup {(n + i - 1) : i \in 1..Len(docs)} |->
     IF o \in DOMAIN coll THEN coll[o]
     ELSE Bson(docs[CHOOSE i \in 1..Len(docs) : (n + i - 1) = o])]

insert_one(coll, doc, n) == insert_many(coll, <<doc>>, n)

\* mutant: the document is replaced instead of patched with $set
update_one_Replace(coll, oid, wu, data) ==
  [o \in DOMAIN coll |->
     IF o # oid THEN coll[o]
     ELSE [name      |-> IF "name" \in data THEN wu.name[1] ELSE "",
           type      |-> coll[o].type,
           splits    |-> IF "splits" \in data THEN wu.splits[1] ELSE <<>>,
           createdAt |-> coll[o].createdAt]]

\* update_one({"_id": oid}, {"$set": ...}) with the fields of data taken from wu
update_one(coll, oid, wu, data) ==
  [o \in DOMAIN coll |->
     IF o # oid THEN coll[o]
     ELSE [name      |-> IF "name" \in data THEN wu.name[1] ELSE coll[o].name,
           type      |-> coll[o].type,
           splits    |-> IF "splits" \in data THEN wu.splits[1] ELSE coll[o].splits,
           createdAt |-> coll[o].createdAt]]

\* delete_one({"_id": oid})
delete_one(coll, oid) == [o \in DOMAIN coll \ {oid} |-> coll[o]]

EmptyCollection == [o \in {} |-> None]

\* failed: the number of the handler's store access that raised, 0 if none did
NoRequest == [op |-> "none", id |-> None, body |-> None, new_name |-> None, failed |-> 0]
NoResponse == [status |-> 0, body |-> None]

\* a coroutine: the operation it runs, the store operation it is to do next
\* (pc), its arguments, the count it has read, the value it has returned,
\* and whether it ran while another of its kind was running (history)
Tasks == 1..MaxTasks
NoTask == [op |-> "none", pc |-> "idle", id |-> None, body |-> None, count |-> 0,
           result |-> None, overlapped |-> FALSE]

Init ==
  /\ workouts = EmptyCollection
  /\ nextId = 1
  /\ clock = 0
  /\ booted = FALSE
  /\ req = NoRequest
  /\ resp = NoResponse
  /\ before = EmptyCollection
  /\ born = EmptyCollection
  /\ deleted = {}
  /\ seedings = 0
  /\ requests = 0
  /\ touched = FALSE
  /\ tasks = [t \in Tasks |-> NoTask]

(***************************************************************************)
(* Inputs of the requests.                                                 *)
(***************************************************************************)
\* the splits of the scenario: the exercise leaves out weight and notes
TestSplits ==
  << [day |-> "A", exercises |-> << [name |-> "Squat", sets |-> 3, reps |-> "10"] >>] >>

NewSplits ==
  << [day |-> "B", exercises |->
        << [name |-> "Bench", sets |-> 5, reps |-> "5", weight |-> "60kg", notes |-> "slow"] >>] >>

Body(name, type, splits) == [name |-> name, type |-> type, splits |-> splits]

CreateBodies ==
  { Body(Some("Test"), Some("custom"), Some(TestSplits)),
    Body(Some("Test"), Some("predefined"), Some(<<>>)),
    Body(Some(""), Some("custom"), Some(<<>>)),
    Body(Some(""), Some("invalid_type"), Some(<<>>)),
    Body(None, Some("custom"), Some(TestSplits)) }

Patch(name, splits, type, createdAt) ==
  [name |-> name, splits |-> splits, type |-> type, createdAt |-> createdAt]

UpdateBodies ==
  { Patch(None, None, None, None),
    Patch(Some("Renamed"), None, None, None),
    Patch(None, Some(NewSplits), None, None),
    Patch(Some("Renamed"), Some(NewSplits), Some("predefined"), Some(0)),
    Patch(Some("Renamed"), None, Some("custom"), Some(0)),
    Patch(None, None, Some("custom"), Some(0)) }

CopyNames == {"X"}

\* ids a client may send: every id handed out so far, one that never is, a malformed one
RequestIds == {IdStrings[n] : n \in 0..(nextId - 1)} \cup {NotAnId}

(***************************************************************************)
(* The seeding routine and the startup hook.                               *)
(***************************************************************************)
\* predefined_workouts with "createdAt": datetime.utcnow()
SeedDocs(now) ==
  [i \in 1..Len(predefined_workouts) |->
     [name |-> predefined_workouts[i].name, type |-> predefined_workouts[i].type,
      splits |-> predefined_workouts[i].splits, createdAt |-> now]]

\* mutant: the catalog is inserted only into an empty collection
SeedNeeded_EmptyCollection(coll) == DOMAIN coll = {}

\* does initialize_predefined_workouts insert the catalog?
SeedNeeded(coll) == count_documents(coll, "predefined") = 0

\* mutant: the catalog is inserted at every call
initialize_predefined_workouts_Always(coll, now, n) ==
  insert_many(coll, SeedDocs(now), n)

\* the collection after initialize_predefined_workouts
initialize_predefined_workouts(coll, now, n) ==
  IF SeedNeeded(coll) THEN insert_many(coll, SeedDocs(now), n) ELSE coll

\* history: type and createdAt of the documents inserted between coll and coll2
Born(coll, coll2) ==
  [o \in DOMAIN born \cup (DOMAIN coll2 \ DOMAIN coll) |->
     IF o \in DOMAIN born THEN born[o]
     ELSE [type |-> coll2[o].type, createdAt |-> coll2[o].createdAt]]

\* startup_db: runs at every start of the server
startup_db ==
  /\ SeedNeeded(workouts) => nextId + Len(predefined_workouts) - 1 <= MaxId
  /\ workouts' = initialize_predefined_workouts(workouts, clock, nextId)
  /\ nextId' = IF SeedNeeded(workouts) THEN nextId + Len(predefined_workouts) ELSE nextId
  /\ seedings' = IF SeedNeeded(workouts) THEN seedings + 1 ELSE seedings
  /\ born' = Born(workouts, workouts')
  /\ booted' = TRUE
  /\ req' = [NoRequest EXCEPT !.op = "startup"]
  /\ resp' = NoResponse
  /\ before' = workouts
  /\ UNCHANGED <<clock, deleted, requests, touched, tasks>>

\* time passes
Tick ==
  /\ clock < MaxClock * TickMicros
  /\ clock' = clock + TickMicros
  /\ UNCHANGED <<workouts, nextId, booted, req, resp, before, born, deleted,
                 seedings, requests, touched, tasks>>

(***************************************************************************)
(* The handlers.                                                           *)
(***************************************************************************)
\* history: was a workout of type predefined added, removed or renamed
\* between coll and coll2?
Touches(coll, coll2) ==
  \E o \in DOMAIN coll \cup DOMAIN coll2 :
    /\ o \notin DOMAIN coll \/ o \notin DOMAIN coll2 \/ coll[o].name # coll2[o].name
    /\ \/ o \in DOMAIN coll /\ coll[o].type = "predefined"
       \/ o \in DOMAIN coll2 /\ coll2[o].type = "predefined"

\* a request is answered: history of the request
Responded(r, out) ==
  /\ booted
  /\ requests < MaxRequests
  /\ requests' = requests + 1
  /\ req' = r
  /\ resp' = Response(out)
  /\ before' = workouts
  /\ born' = Born(workouts, workouts')
  /\ touched' = (touched \/ Touches(workouts, workouts'))
  /\ UNCHANGED <<clock, booted, seedings>>

\* a request is served by a handler that runs in one step
Served(r, out) == Responded(r, out) /\ UNCHANGED tasks

\* the ObjectIds among lo..hi of the documents of the given types, in
\* insertion order
RECURSIVE find_range(_, _, _, _)
find_range(coll, types, lo, hi) ==
  IF lo > hi THEN <<>>
  ELSE IF lo = hi
       THEN IF lo \in DOMAIN coll /\ coll[lo].type \in types THEN <<lo>> ELSE <<>>
       ELSE find_range(coll, types, lo, (lo + hi) \div 2) \o
            find_range(coll, types, ((lo + hi) \div 2) + 1, hi)

\* find(...) without sort: the ObjectIds among 1..n of the documents of the
\* given types, in insertion order
find(coll, types, n) == find_range(coll, types, 1, n)

\* cursor.to_list(length)
to_list(cursor, length) ==
  SubSeq(cursor, 1, IF Len(cursor) < length THEN Len(cursor) ELSE length)

\* mutant: find() without the filter
get_predefined_workouts_out_NoFilter(coll, n) ==
  LET found == to_list(find(coll, WorkoutTypes, n), ListCap)
  IN [i \in 1..Len(found) |-> serialize_workout(found[i], coll[found[i]])]

\* GET /workouts/predefined: the returned list
get_predefined_workouts_out(coll, n) ==
  LET found == to_list(find(coll, {"predefined"}, n), ListCap)
  IN [i \in 1..Len(found) |-> serialize_workout(found[i], coll[found[i]])]

get_predefined_workouts ==
  /\ UNCHANGED <<workouts, nextId, deleted>>
  /\ Served([NoRequest EXCEPT !.op = "list_predefined"],
            Return(get_predefined_workouts_out(workouts, nextId - 1)))

\* GET /workouts/{workout_id}: the try block; oid is ObjectId(workout_id)
get_workout_try(coll, oid) ==
  IF oid = None THEN InvalidId
  ELSE LET workout == find_one(coll, oid[1]) IN
       IF workout = None THEN HTTPException(404)
       ELSE Return(Some(serialize_workout(oid[1], workout[1])))

get_workout(workout_id) ==
  /\ UNCHANGED <<workouts, nextId, deleted>>
  /\ Served([NoRequest EXCEPT !.op = "get", !.id = workout_id],
            ExceptException(get_workout_try(workouts, ObjectId(workout_id))))

\* POST /workouts: the collection after the handler
create_workout_store(coll, body, now, n) ==
  IF WorkoutCreateValid(body)
  THEN LET workout_dict == WorkoutCreate(body) IN
       insert_one(coll, [name |-> workout_dict.name, type |-> workout_dict.type,
                         splits |-> workout_dict.splits, createdAt |-> now], n)
  ELSE coll

\* mutant: the handler returns workout_dict instead of reading the document back
create_workout_out_NoReadBack(coll, body, now, n) ==
  IF ~WorkoutCreateValid(body) THEN RequestValidationError
  ELSE LET workout_dict == WorkoutCreate(body) IN
       Return(Some(serialize_workout(n,
         [name |-> workout_dict.name, type |-> workout_dict.type,
          splits |-> workout_dict.splits, createdAt |-> now])))

\* POST /workouts: the outcome; created_workout is read back from the store
create_workout_out(coll, body, now, n) ==
  IF ~WorkoutCreateValid(body) THEN RequestValidationError
  ELSE LET created_workout == find_one(create_workout_store(coll, body, now, n), n)
       IN Return(Some(serialize_workout(n, created_workout[1])))

create_workout(body) ==
  /\ WorkoutCreateValid(body) => nextId <= MaxId
  /\ workouts' = create_workout_store(workouts, body, clock, nextId)
  /\ nextId' = IF WorkoutCreateValid(body) THEN nextId + 1 ELSE nextId
  /\ UNCHANGED deleted
  /\ Served([NoRequest EXCEPT !.op = "create", !.body = body],
            create_workout_out(workouts, body, clock, nextId))

\* mutant: $set gets the whole body, "type" and "createdAt" included
update_workout_store_Raw(coll, oid, body) ==
  IF oid # None /\ oid[1] \in DOMAIN coll /\ (body.name # None \/ body.splits # None)
  THEN [coll EXCEPT ![oid[1]] =
          [name      |-> IF body.name # None THEN body.name[1] ELSE @.name,
           type      |-> IF body.type # None THEN body.type[1] ELSE @.type,
           splits    |-> IF body.splits # None THEN SplitsDict(body.splits[1]) ELSE @.splits,
           createdAt |-> IF body.createdAt # None THEN body.createdAt[1] ELSE @.createdAt]]
  ELSE coll

\* PUT /workouts/{workout_id}: the collection after the handler
update_workout_store(coll, oid, body) ==
  LET wu == WorkoutUpdate(body) IN
  IF update_data(wu) # {} /\ oid # None
  THEN update_one(coll, oid[1], wu, update_data(wu))
  ELSE coll

\* mutant: the check of update_data is missing
update_workout_try_NoCheck(coll, oid, body) ==
  IF oid = None THEN InvalidId
  ELSE IF oid[1] \notin DOMAIN coll THEN HTTPException(404)
  ELSE Return(Some(serialize_workout(oid[1], coll[oid[1]])))

\* PUT /workouts/{workout_id}: the try block; oid is ObjectId(workout_id),
\* which the handler evaluates only after the check of update_data
update_workout_try(coll, oid, body) ==
  IF update_data(WorkoutUpdate(body)) = {} THEN HTTPException(400)
  ELSE IF oid = None THEN InvalidId
  ELSE IF oid[1] \notin DOMAIN coll THEN HTTPException(404)
  ELSE LET updated_workout == find_one(update_workout_store(coll, oid, body), oid[1])
       IN Return(Some(serialize_workout(oid[1], updated_workout[1])))

update_workout(workout_id, body) ==
  LET oid == ObjectId(workout_id) IN
  /\ workouts' = update_workout_store(workouts, oid, body)
  /\ UNCHANGED <<nextId, deleted>>
  /\ Served([NoRequest EXCEPT !.op = "update", !.id = workout_id, !.body = body],
            ExceptException(update_workout_try(workouts, oid, body)))

\* DELETE /workouts/{workout_id}: the try block
delete_workout_try(coll, oid) ==
  IF oid = None THEN InvalidId
  ELSE IF oid[1] \notin DOMAIN coll THEN HTTPException(404)
  ELSE Return(None)

\* DELETE /workouts/{workout_id}: the collection after the handler
delete_workout_store(coll, oid) ==
  IF oid # None THEN delete_one(coll, oid[1]) ELSE coll

delete_workout(workout_id) ==
  LET oid == ObjectId(workout_id) IN
  /\ workouts' = delete_workout_store(workouts, oid)
  /\ deleted' = deleted \cup (DOMAIN workouts \ DOMAIN workouts')
  /\ UNCHANGED nextId
  /\ Served([NoRequest EXCEPT !.op = "delete", !.id = workout_id],
            ExceptException(delete_workout_try(workouts, oid)))

\* POST /workouts/{workout_id}/copy: does the handler reach insert_one?
copy_workout_found(coll, oid) == oid # None /\ find_one(coll, oid[1]) # None

\* mutant: the copy keeps the type of the original
copy_workout_store_KeepType(coll, oid, new_name, now, n) ==
  IF copy_workout_found(coll, oid)
  THEN LET original == find_one(coll, oid[1])[1] IN
       insert_one(coll, [name |-> new_name, type |-> original.type,
                         splits |-> original.splits, createdAt |-> now], n)
  ELSE coll

\* POST /workouts/{workout_id}/copy: the collection after the handler
copy_workout_store(coll, oid, new_name, now, n) ==
  IF copy_workout_found(coll, oid)
  THEN LET original == find_one(coll, oid[1])[1] IN
       insert_one(coll, [name |-> new_name, type |-> "custom",
                         splits |-> original.splits, createdAt |-> now], n)
  ELSE coll

\* POST /workouts/{workout_id}/copy: the try block
copy_workout_try(coll, oid, new_name, now, n) ==
  IF oid = None THEN InvalidId
  ELSE IF find_one(coll, oid[1]) = None THEN HTTPException(404)
  ELSE LET created_workout == find_one(copy_workout_store(coll, oid, new_name, now, n), n)
       IN Return(Some(serialize_workout(n, created_workout[1])))

copy_workout(workout_id, new_name) ==
  LET oid == ObjectId(workout_id) IN
  /\ copy_workout_found(workouts, oid) => nextId <= MaxId
  /\ workouts' = copy_workout_store(workouts, oid, new_name, clock, nextId)
  /\ nextId' = IF copy_workout_found(workouts, oid) THEN nextId + 1 ELSE nextId
  /\ UNCHANGED deleted
  /\ Served([NoRequest EXCEPT !.op = "copy", !.id = workout_id, !.new_name = Some(new_name)],
            ExceptException(copy_workout_try(workouts, oid, new_name, clock, nextId)))

Next ==
  \/ startup_db
  \/ Tick
  \/ get_predefined_workouts
  \/ \E workout_id \in RequestIds : get_workout(workout_id)
  \/ \E body \in CreateBodies : create_workout(body)
  \/ \E workout_id \in RequestIds, body \in UpdateBodies : update_workout(workout_id, body)
  \/ \E workout_id \in RequestIds : delete_workout(workout_id)
  \/ \E workout_id \in RequestIds, new_name \in CopyNames : copy_workout(workout_id, new_name)

Spec == Init /\ [][Next]_vars

(***************************************************************************)
(* Seeding on a collection that outlived earlier runs of the server.  The  *)
(* collection is in the database, not in the process: a start may find it  *)
(* as earlier requests left it.  InitAfterPurge is the state Spec reaches  *)
(* (with more requests than MaxRequests) by the first start, a create of a *)
(* custom workout and the deletes of the four predefined workouts.         *)
(***************************************************************************)
SeededCollection == initialize_predefined_workouts(EmptyCollection, 0, 1)

WithCustom ==
  create_workout_store(SeededCollection,
                       Body(Some("Test"), Some("custom"), Some(TestSplits)),
                       0, Len(predefined_workouts) + 1)

RECURSIVE Purge(_, _)
Purge(coll, n) == IF n = 0 THEN coll ELSE delete_one(Purge(coll, n - 1), n)

InitAfterPurge ==
  /\ workouts = Purge(WithCustom, Len(predefined_workouts))
  /\ nextId = Len(predefined_workouts) + 2
  /\ clock = 0
  /\ booted = TRUE
  /\ req = [NoRequest EXCEPT !.op = "delete", !.id = IdStrings[Len(predefined_workouts)]]
  /\ resp = Response(Return(None))
  /\ before = Purge(WithCustom, Len(predefined_workouts) - 1)
  /\ born = [o \in DOMAIN WithCustom |->
              [type |-> WithCustom[o].type, createdAt |-> WithCustom[o].createdAt]]
  /\ deleted = 1..Len(predefined_workouts)
  /\ seedings = 1
  /\ requests = Len(predefined_workouts) + 1
  /\ touched = TRUE
  /\ tasks = [t \in Tasks |-> NoTask]

InitSeeding == Init \/ InitAfterPurge

\* the steps that change the number of predefined workouts
NextSeeding ==
  \/ startup_db
  \/ Tick
  \/ \E body \in CreateBodies : create_workout(body)
  \/ \E workout_id \in RequestIds : delete_workout(workout_id)

SpecSeeding == InitSeeding /\ [][NextSeeding]_vars

(***************************************************************************)
(* The sorted lists.  The store leaves workouts of equal createdAt in an   *)
(* order of its choice: in the order of insertion or in the reverse of it. *)
(***************************************************************************)
TieOrders == {"natural", "reverse"}

\* the latest and the earliest createdAt of the documents of a cursor
Latest(cursor, coll) ==
  CHOOSE t \in {coll[cursor[i]].createdAt : i \in 1..Len(cursor)} :
    \A i \in 1..Len(cursor) : coll[cursor[i]].createdAt <= t

Earliest(cursor, coll) ==
  CHOOSE t \in {coll[cursor[i]].createdAt : i \in 1..Len(cursor)} :
    \A i \in 1..Len(cursor) : coll[cursor[i]].createdAt >= t

\* the documents of a cursor, all with createdAt in lo..hi, latest first
RECURSIVE sort_between(_, _, _, _, _)
sort_between(cursor, coll, tie, lo, hi) ==
  IF cursor = <<>> THEN <<>>
  ELSE IF lo = hi
       THEN IF tie = "natural" THEN cursor
            ELSE [i \in 1..Len(cursor) |-> cursor[Len(cursor) + 1 - i]]
       ELSE LET mid == (lo + hi) \div 2
                Later(o) == coll[o].createdAt > mid
                Earlier(o) == coll[o].createdAt <= mid
            IN sort_between(SelectSeq(cursor, Later), coll, tie, mid + 1, hi) \o
               sort_between(SelectSeq(cursor, Earlier), coll, tie, lo, mid)

\* cursor.sort("createdAt", -1)
sort(cursor, coll, tie) ==
  IF cursor = <<>> THEN <<>>
  ELSE sort_between(cursor, coll, tie, Earliest(cursor, coll), Latest(cursor, coll))

\* mutant: find() without sort
get_workouts_out_NoSort(coll, n, tie) ==
  LET found == to_list(find(coll, {coll[o].type : o \in DOMAIN coll}, n), ListCap)
  IN [i \in 1..Len(found) |-> serialize_workout(found[i], coll[found[i]])]

\* GET /workouts: the returned list; find() has no filter
get_workouts_out(coll, n, tie) ==
  LET found == to_list(sort(find(coll, {coll[o].type : o \in DOMAIN coll}, n), coll, tie),
                       ListCap)
  IN [i \in 1..Len(found) |-> serialize_workout(found[i], coll[found[i]])]

get_workouts ==
  \E tie \in TieOrders :
    /\ UNCHANGED <<workouts, nextId, deleted>>
    /\ Served([NoRequest EXCEPT !.op = "list_all"],
              Return(get_workouts_out(workouts, nextId - 1, tie)))

\* mutant: find() without the filter
get_custom_workouts_out_NoFilter(coll, n, tie) ==
  LET found == to_list(sort(find(coll, WorkoutTypes, n), coll, tie), ListCap)
  IN [i \in 1..Len(found) |-> serialize_workout(found[i], coll[found[i]])]

\* GET /workouts/custom: the returned list
get_custom_workouts_out(coll, n, tie) ==
  LET found == to_list(sort(find(coll, {"custom"}, n), coll, tie), ListCap)
  IN [i \in 1..Len(found) |-> serialize_workout(found[i], coll[found[i]])]

get_custom_workouts ==
  \E tie \in TieOrders :
    /\ UNCHANGED <<workouts, nextId, deleted>>
    /\ Served([NoRequest EXCEPT !.op = "list_custom"],
              Return(get_custom_workouts_out(workouts, nextId - 1, tie)))

(***************************************************************************)
(* Collections larger than a list.  Filled(k, pace) is the collection the  *)
(* first start and k creates of a custom workout leave, the clock having   *)
(* advanced once every pace creates.                                       *)
(***************************************************************************)
\* the document the i-th of these creates inserts
FilledDoc(i, pace) ==
  LET workout_dict == WorkoutCreate(Body(Some("Test"), Some("custom"), Some(TestSplits)))
  IN [name |-> workout_dict.name, type |-> workout_dict.type,
      splits |-> workout_dict.splits, createdAt |-> (i \div pace) * TickMicros]

Filled(k, pace) ==
  insert_many(SeededCollection, [i \in 1..k |-> FilledDoc(i, pace)],
              Len(predefined_workouts) + 1)

\* numbers of custom workouts: the collection or its custom workouts are as
\* many as a list returns, or up to MaxOver more
FilledCounts ==
  {ListCap - Len(predefined_workouts) + i : i \in 0..MaxOver} \cup
  {ListCap + i : i \in 0..MaxOver}

\* creates per advance of the clock: every create at another time, three at
\* a time, all at the same time
Paces == {1, 3, 2 * ListCap}

\* the requests served are counted from this state on
InitFilled ==
  \E k \in FilledCounts, pace \in Paces :
    /\ workouts = Filled(k, pace)
    /\ nextId = Len(predefined_workouts) + k + 1
    /\ clock = (k \div pace) * TickMicros
    /\ booted = TRUE
    /\ req = NoRequest
    /\ resp = NoResponse
    /\ before = workouts
    /\ born = [o \in DOMAIN workouts |->
                [type |-> workouts[o].type, createdAt |-> workouts[o].createdAt]]
    /\ deleted = {}
    /\ seedings = 1
    /\ requests = 0
    /\ touched = FALSE
    /\ tasks = [t \in Tasks |-> NoTask]

InitLists == Init \/ InitFilled

NextLists ==
  \/ startup_db
  \/ Tick
  \/ \E body \in CreateBodies : create_workout(body)
  \/ get_workouts
  \/ get_predefined_workouts
  \/ get_custom_workouts

SpecLists == InitLists /\ [][NextLists]_vars

(***************************************************************************)
(* Requests during which the store fails: the handler's store access       *)
(* number `failing` raises a pymongo error (the server is unreachable, the *)
(* connection drops), after the accesses before it took effect.  A handler *)
(* with a try block hands the error to its except clause; the list         *)
(* handlers and create have no try block.                                  *)
(***************************************************************************)
\* pymongo.errors.PyMongoError: not an HTTPException; if it escapes the
\* handler the framework answers 500
PyMongoError == [raised |-> TRUE, status |-> 500, body |-> None]

get_workouts_failing ==
  /\ UNCHANGED <<workouts, nextId, deleted>>
  /\ Served([NoRequest EXCEPT !.op = "list_all", !.failed = 1], PyMongoError)

get_predefined_workouts_failing ==
  /\ UNCHANGED <<workouts, nextId, deleted>>
  /\ Served([NoRequest EXCEPT !.op = "list_predefined", !.failed = 1], PyMongoError)

get_custom_workouts_failing ==
  /\ UNCHANGED <<workouts, nextId, deleted>>
  /\ Served([NoRequest EXCEPT !.op = "list_custom", !.failed = 1], PyMongoError)

\* find_one raises; ObjectId(workout_id) was evaluated before it
get_workout_failing(workout_id) ==
  /\ ObjectId(workout_id) # None
  /\ UNCHANGED <<workouts, nextId, deleted>>
  /\ Served([NoRequest EXCEPT !.op = "get", !.id = workout_id, !.failed = 1],
            ExceptException(PyMongoError))

\* insert_one (1) or the find_one after it (2) raises
create_workout_failing(body, failing) ==
  /\ WorkoutCreateValid(body)
  /\ failing = 2 => nextId <= MaxId
  /\ workouts' = IF failing = 2 THEN create_workout_store(workouts, body, clock, nextId)
                 ELSE workouts
  /\ nextId' = IF failing = 2 THEN nextId + 1 ELSE nextId
  /\ UNCHANGED deleted
  /\ Served([NoRequest EXCEPT !.op = "create", !.body = body, !.failed = failing],
            PyMongoError)

\* update_one (1) or, after a match, the find_one after it (2) raises
update_workout_failing(workout_id, body, failing) ==
  LET oid == ObjectId(workout_id) IN
  /\ update_data(WorkoutUpdate(body)) # {}
  /\ oid # None
  /\ failing = 2 => oid[1] \in DOMAIN workouts
  /\ workouts' = IF failing = 2 THEN update_workout_store(workouts, oid, body) ELSE workouts
  /\ UNCHANGED <<nextId, deleted>>
  /\ Served([NoRequest EXCEPT !.op = "update", !.id = workout_id, !.body = body,
                              !.failed = failing],
            ExceptException(PyMongoError))

\* delete_one raises
delete_workout_failing(workout_id) ==
  /\ ObjectId(workout_id) # None
  /\ UNCHANGED <<workouts, nextId, deleted>>
  /\ Served([NoRequest EXCEPT !.op = "delete", !.id = workout_id, !.failed = 1],
            ExceptException(PyMongoError))

\* the first find_one (1), insert_one (2) or the find_one after it (3) raises
copy_workout_failing(workout_id, new_name, failing) ==
  LET oid == ObjectId(workout_id) IN
  /\ oid # None
  /\ failing >= 2 => copy_workout_found(workouts, oid)
  /\ failing = 3 => nextId <= MaxId
  /\ workouts' = IF failing = 3
                 THEN copy_workout_store(workouts, oid, new_name, clock, nextId)
                 ELSE workouts
  /\ nextId' = IF failing = 3 THEN nextId + 1 ELSE nextId
  /\ UNCHANGED deleted
  /\ Served([NoRequest EXCEPT !.op = "copy", !.id = workout_id,
                              !.new_name = Some(new_name), !.failed = failing],
            ExceptException(PyMongoError))

NextFailing ==
  \/ startup_db
  \/ Tick
  \/ \E body \in CreateBodies : create_workout(body)
  \/ get_workouts_failing
  \/ get_predefined_workouts_failing
  \/ get_custom_workouts_failing
  \/ \E workout_id \in RequestIds : get_workout_failing(workout_id)
  \/ \E body \in CreateBodies, failing \in 1..2 : create_workout_failing(body, failing)
  \/ \E workout_id \in RequestIds, body \in UpdateBodies, failing \in 1..2 :
       update_workout_failing(workout_id, body, failing)
  \/ \E workout_id \in RequestIds : delete_workout_failing(workout_id)
  \/ \E workout_id \in RequestIds, new_name \in CopyNames, failing \in 1..3 :
       copy_workout_failing(workout_id, new_name, failing)

SpecFailing == Init /\ [][NextFailing]_vars

(***************************************************************************)
(* Concurrent requests.  A handler gives up control at every await, that   *)
(* is at every store operation, and other handlers run between its store   *)
(* operations.  update_workout has two: update_one, and for a matched      *)
(* update the find_one that reads the document back.  A handler with one   *)
(* store operation runs in one step.                                       *)
(***************************************************************************)
\* the response model Workout rejects a handler's return value None
ResponseValidationError == [raised |-> TRUE, status |-> 500, body |-> None]

\* did update_one match a document?
update_matched(coll, oid, body) ==
  /\ update_data(WorkoutUpdate(body)) # {}
  /\ oid # None
  /\ oid[1] \in DOMAIN coll

\* update_workout up to update_one and the check of matched_count; an update
\* that is not matched is answered here
update_workout_write(t, workout_id, body) ==
  LET oid == ObjectId(workout_id) IN
  /\ booted
  /\ tasks[t].pc = "idle"
  /\ workouts' = update_workout_store(workouts, oid, body)
  /\ UNCHANGED <<nextId, deleted>>
  /\ IF update_matched(workouts, oid, body)
     THEN /\ tasks' = [tasks EXCEPT ![t] = [NoTask EXCEPT !.op = "update", !.pc = "find_one",
                                                          !.id = workout_id, !.body = body]]
          /\ touched' = (touched \/ Touches(workouts, workouts'))
          /\ UNCHANGED <<clock, booted, seedings, req, resp, before, born, requests>>
     ELSE /\ tasks' = [tasks EXCEPT ![t] = [NoTask EXCEPT !.op = "update", !.pc = "raised",
                                                          !.id = workout_id, !.body = body]]
          /\ Responded([NoRequest EXCEPT !.op = "update", !.id = workout_id, !.body = body],
                       ExceptException(update_workout_try(workouts, oid, body)))

\* what update_workout returns: serialize_workout(updated_workout), which is
\* None for the updated_workout None
update_workout_return(coll, oid) ==
  LET updated_workout == find_one(coll, oid)
  IN IF updated_workout = None THEN None
     ELSE Some(serialize_workout(oid, updated_workout[1]))

\* update_workout from the find_one (the read-back) to the response
update_workout_read(t) ==
  LET oid == ObjectId(tasks[t].id)[1]
      returned == update_workout_return(workouts, oid)
  IN /\ tasks[t].pc = "find_one"
     /\ tasks' = [tasks EXCEPT ![t].pc = "returned", ![t].result = returned]
     /\ UNCHANGED <<workouts, nextId, deleted>>
     /\ Responded([NoRequest EXCEPT !.op = "update", !.id = tasks[t].id, !.body = tasks[t].body],
                  IF returned = None THEN ResponseValidationError ELSE Return(returned))

\* the bodies of concurrent updates: two of them give different names
ConcurrentUpdateBodies == UpdateBodies \cup {Patch(Some("Other"), None, None, None)}

NextConcurrent ==
  \/ startup_db
  \/ \E t \in Tasks, workout_id \in RequestIds, body \in ConcurrentUpdateBodies :
       update_workout_write(t, workout_id, body)
  \/ \E t \in Tasks : update_workout_read(t)
  \/ \E workout_id \in RequestIds : delete_workout(workout_id)

SpecConcurrent == Init /\ [][NextConcurrent]_vars

(***************************************************************************)
(* Concurrent seeding: several instances start against the same            *)
(* collection.  initialize_predefined_workouts has two store operations,   *)
(* count_documents and, for a count of 0, insert_many; other routines and  *)
(* requests run between them.                                              *)
(***************************************************************************)
\* mutant: the catalog is inserted whatever the count
SeedAfterCount_Always(count) == TRUE

\* if count == 0
SeedAfterCount(count) == count = 0

\* the routines that are between their count_documents and their insert_many
Seeding == {u \in Tasks : tasks[u].op = "seed" /\ tasks[u].pc = "insert_many"}

\* initialize_predefined_workouts up to count_documents and the test of the
\* count; with a count other than 0 the routine, and with it the start, ends
initialize_predefined_workouts_count(t) ==
  LET count == count_documents(workouts, "predefined") IN
  /\ tasks[t].pc = "idle"
  /\ tasks' = [u \in Tasks |->
                 IF u = t
                 THEN [NoTask EXCEPT !.op = "seed",
                                     !.pc = IF SeedAfterCount(count) THEN "insert_many"
                                            ELSE "returned",
                                     !.count = count,
                                     !.overlapped = (Seeding # {})]
                 ELSE IF u \in Seeding THEN [tasks[u] EXCEPT !.overlapped = TRUE]
                 ELSE tasks[u]]
  /\ IF SeedAfterCount(count)
     THEN UNCHANGED <<booted, req, resp, before>>
     ELSE /\ booted' = TRUE
          /\ req' = [NoRequest EXCEPT !.op = "startup"]
          /\ resp' = NoResponse
          /\ before' = workouts
  /\ UNCHANGED <<workouts, nextId, clock, born, deleted, seedings, requests, touched>>

\* initialize_predefined_workouts from insert_many to its end
initialize_predefined_workouts_insert(t) ==
  /\ tasks[t].pc = "insert_many"
  /\ nextId + Len(predefined_workouts) - 1 <= MaxId
  /\ workouts' = insert_many(workouts, SeedDocs(clock), nextId)
  /\ nextId' = nextId + Len(predefined_workouts)
  /\ seedings' = seedings + 1
  /\ born' = Born(workouts, workouts')
  /\ booted' = TRUE
  /\ req' = [NoRequest EXCEPT !.op = "startup"]
  /\ resp' = NoResponse
  /\ before' = workouts
  /\ tasks' = [tasks EXCEPT ![t].pc = "returned"]
  /\ UNCHANGED <<clock, deleted, requests, touched>>

NextRace ==
  \/ \E t \in Tasks : initialize_predefined_workouts_count(t)
  \/ \E t \in Tasks : initialize_predefined_workouts_insert(t)
  \/ Tick
  \/ \E body \in CreateBodies : create_workout(body)

SpecRace == Init /\ [][NextRace]_vars

(***************************************************************************)
(* Properties.                                                             *)
(***************************************************************************)
\* the ObjectId the last request addressed, where its id is well formed
ReqOid == ObjectId(req.id)[1]

\* splits read back (got) equal the splits sent, an exercise's omitted
\* weight or notes reading as ""
ReadsAs(got, sent) ==
  /\ Len(got) = Len(sent)
  /\ \A i \in 1..Len(sent) :
       /\ got[i].day = sent[i].day
       /\ Len(got[i].exercises) = Len(sent[i].exercises)
       /\ \A j \in 1..Len(sent[i].exercises) :
            LET g == got[i].exercises[j]
                e == sent[i].exercises[j]
            IN /\ g.name = e.name /\ g.sets = e.sets /\ g.reps = e.reps
               /\ g.weight = (IF "weight" \in DOMAIN e THEN e.weight ELSE "")
               /\ g.notes = (IF "notes" \in DOMAIN e THEN e.notes ELSE "")

\* every document of coll is in coll2, unchanged
Kept(coll, coll2) == \A o \in DOMAIN coll : o \in DOMAIN coll2 /\ coll2[o] = coll[o]

\* C1: a valid create request with a non-empty name succeeds, and a get by
\* the id it returned, with no other request in between, succeeds and yields
\* the id and createdAt that create returned and the name, type and splits
\* of the create request (omitted weight and notes reading as "").
C1_CreateThenGet ==
  [][ (req.op = "create" /\ WorkoutCreateValid(req.body) /\ req.body.name[1] # "")
      => /\ resp.status = 200
         /\ (req'.op = "get" /\ req'.id = resp.body[1].id)
            => /\ resp'.status = 200
               /\ resp'.body[1].id = resp.body[1].id
               /\ resp'.body[1].createdAt = resp.body[1].createdAt
               /\ resp'.body[1].name = req.body.name[1]
               /\ resp'.body[1].type = req.body.type[1]
               /\ ReadsAs(resp'.body[1].splits, req.body.splits[1]) ]_vars

\* a get has returned the workout created last, whose exercise left out its weight
C1_Witness ==
  /\ req.op = "get" /\ resp.status = 200
  /\ resp.body[1].id = IdStrings[nextId - 1]
  /\ resp.body[1].name = "Test" /\ resp.body[1].type = "custom"
  /\ resp.body[1].createdAt = BsonDate(TickMicros)
  /\ resp.body[1].splits # <<>>
  /\ resp.body[1].splits[1].exercises[1].weight = ""

\* C2: a get with a malformed id fails with 400, a get with a well-formed id
\* that matches no document fails with 404; the store is unchanged.
C2_GetFailures ==
  req.op = "get" =>
    /\ ObjectId(req.id) = None => resp.status = 400
    /\ (ObjectId(req.id) # None /\ ReqOid \notin DOMAIN before) => resp.status = 404
    /\ workouts = before

\* C3: update (with a field), delete and copy with a well-formed id that
\* matches no document fail with 404 and leave the collection unchanged.
C3_MissingIdNotFound ==
  ( /\ req.op \in {"update", "delete", "copy"}
    /\ ObjectId(req.id) # None /\ ReqOid \notin DOMAIN before
    /\ req.op = "update" => (req.body.name # None \/ req.body.splits # None) )
  => (resp.status = 404 /\ workouts = before)

\* C4: a successful update with only a name changes only the name of the
\* addressed workout, one with only splits changes only its splits; every
\* other workout is unchanged.
C4_PartialUpdateFrame ==
  (req.op = "update" /\ resp.status = 200) =>
    /\ DOMAIN workouts = DOMAIN before
    /\ \A o \in DOMAIN before \ {ReqOid} : workouts[o] = before[o]
    /\ (req.body.name # None /\ req.body.splits = None) =>
         workouts[ReqOid] = [before[ReqOid] EXCEPT !.name = req.body.name[1]]
    /\ (req.body.name = None /\ req.body.splits # None) =>
         /\ workouts[ReqOid].name = before[ReqOid].name
         /\ workouts[ReqOid].type = before[ReqOid].type
         /\ workouts[ReqOid].createdAt = before[ReqOid].createdAt
         /\ ReadsAs(workouts[ReqOid].splits, req.body.splits[1])

\* an update with only a name has renamed one of several workouts
C4_Witness ==
  /\ req.op = "update" /\ resp.status = 200
  /\ req.body.name # None /\ req.body.splits = None
  /\ workouts[ReqOid].name # before[ReqOid].name
  /\ before[ReqOid].splits # <<>>
  /\ Cardinality(DOMAIN workouts) > 1

\* C5: an update whose body has neither name nor splits fails with 400 for
\* any id and leaves every document unchanged.
C5_EmptyUpdate ==
  (req.op = "update" /\ req.body.name = None /\ req.body.splits = None)
  => (resp.status = 400 /\ workouts = before)

\* an update without name and splits was addressed to a stored workout
C5_Witness ==
  /\ req.op = "update" /\ req.body.name = None /\ req.body.splits = None
  /\ ObjectId(req.id) # None /\ ReqOid \in DOMAIN workouts

\* C6: a copy of an existing workout W with new name X succeeds and adds
\* exactly one document, of type custom, named X, with W's splits and a new
\* id; W and every other document are unchanged.
C6_Copy ==
  (req.op = "copy" /\ ObjectId(req.id) # None /\ ReqOid \in DOMAIN before) =>
    /\ resp.status = 200
    /\ Kept(before, workouts)
    /\ \E new \in DOMAIN workouts :
         /\ DOMAIN workouts = DOMAIN before \cup {new}
         /\ new \notin DOMAIN before /\ new # ReqOid /\ new \notin deleted
         /\ workouts[new].type = "custom"
         /\ workouts[new].name = req.new_name[1]
         /\ workouts[new].splits = before[ReqOid].splits
         /\ resp.body[1].id = IdStrings[new]
         /\ resp.body[1].id # req.id

\* a predefined workout with splits has been copied
C6_Witness ==
  /\ req.op = "copy" /\ resp.status = 200
  /\ before[ReqOid].type = "predefined"
  /\ before[ReqOid].splits # <<>>
  /\ Cardinality(DOMAIN workouts) = Cardinality(DOMAIN before) + 1

\* C7: a successful delete removes the addressed document and only it, and
\* every later get of its id fails with NotFound (404).
C7_DeletedStaysNotFound ==
  /\ (req.op = "delete" /\ resp.status = 200) =>
       /\ ReqOid \in DOMAIN before
       /\ workouts = delete_one(before, ReqOid)
  /\ deleted \cap DOMAIN workouts = {}
  /\ (req.op = "get" /\ ObjectId(req.id) # None /\ ReqOid \in deleted) => resp.status = 404

\* C8: a stored workout has the type and createdAt it was inserted with.
C8_TypeAndCreatedAtImmutable ==
  \A o \in DOMAIN workouts :
    /\ workouts[o].type = born[o].type
    /\ workouts[o].createdAt = born[o].createdAt

\* a successful update whose body named another type and a createdAt
C8_Witness ==
  /\ req.op = "update" /\ resp.status = 200
  /\ req.body.type # None /\ req.body.type[1] # before[ReqOid].type
  /\ req.body.createdAt # None /\ req.body.createdAt[1] # before[ReqOid].createdAt

\* C9: the seeding routine, run on a collection without predefined workouts,
\* inserts exactly the four catalog workouts, all predefined; run on one that
\* has a predefined workout it changes nothing; after any number of starts
\* in a row from the empty collection there are exactly four.
C9_SeedingIdempotent ==
  /\ req.op = "startup" =>
       IF count_documents(before, "predefined") = 0
       THEN /\ Kept(before, workouts)
            /\ Cardinality(DOMAIN workouts \ DOMAIN before) = 4
            /\ \A o \in DOMAIN workouts \ DOMAIN before :
                 /\ workouts[o].type = "predefined"
                 /\ \E i \in 1..Len(predefined_workouts) :
                      /\ workouts[o].name = predefined_workouts[i].name
                      /\ workouts[o].splits = predefined_workouts[i].splits
            /\ {workouts[o].name : o \in DOMAIN workouts \ DOMAIN before} = CatalogNames
       ELSE workouts = before
  /\ (booted /\ requests = 0) => count_documents(workouts, "predefined") = 4

\* the routine seeded a collection that held only a custom workout, and then
\* ran again
C9_Witness ==
  /\ req.op = "startup" /\ seedings = 2
  /\ count_documents(before, "predefined") = 4
  /\ count_documents(before, "custom") = 1
  /\ workouts = before

\* the list of predefined workouts is the catalog: four workouts, all
\* predefined, with the four catalog names
IsCatalog(list) ==
  /\ Len(list) = 4
  /\ \A i \in 1..Len(list) : list[i].type = "predefined"
  /\ {list[i].name : i \in 1..Len(list)} = CatalogNames

\* C10 as claimed: once the first start has seeded, the list of predefined
\* workouts is the catalog in every state.
C10_AlwaysCatalog ==
  /\ seedings >= 1 => IsCatalog(get_predefined_workouts_out(workouts, nextId - 1))
  /\ (req.op = "list_predefined" /\ seedings >= 1) => IsCatalog(resp.body)

\* C10 amended: once the first start has seeded, the list of predefined
\* workouts is the catalog as long as no request has created, renamed or
\* deleted a workout of type predefined.
C10_CatalogUntilTouched ==
  /\ (seedings >= 1 /\ ~touched) => IsCatalog(get_predefined_workouts_out(workouts, nextId - 1))
  /\ (req.op = "list_predefined" /\ seedings >= 1 /\ ~touched) => IsCatalog(resp.body)

\* the list was served after a request that added a custom workout
C10_Witness ==
  /\ req.op = "list_predefined" /\ ~touched
  /\ count_documents(workouts, "custom") > 0
  /\ Len(resp.body) = 4

\* C11: a create whose name is empty or whose type is neither predefined nor
\* custom is rejected with a validation error (422) and stores nothing; every
\* workout a create has stored has a non-empty name.
C11_CreateRejectsInvalid ==
  req.op = "create" =>
    /\ ( \/ req.body.name = Some("")
         \/ req.body.type = None
         \/ req.body.type[1] \notin WorkoutTypes )
       => (resp.status = 422 /\ workouts = before)
    /\ \A o \in DOMAIN workouts \ DOMAIN before : workouts[o].name # ""

\* the response list holds min(ListCap, number of stored) of the workouts
\* stored, each once, latest createdAt first, and no workout left out is
\* later than one returned
LatestFirst(list, coll, stored) ==
  /\ Len(list) <= ListCap
  /\ Len(list) = (IF Cardinality(stored) < ListCap THEN Cardinality(stored) ELSE ListCap)
  /\ \A i \in 1..Len(list) : \E o \in stored : list[i] = serialize_workout(o, coll[o])
  /\ \A i, j \in 1..Len(list) : i < j =>
        (list[i].id # list[j].id /\ list[i].createdAt >= list[j].createdAt)
  /\ \A o \in stored :
        (\A i \in 1..Len(list) : list[i].id # IdStrings[o])
        => \A i \in 1..Len(list) : coll[o].createdAt <= list[i].createdAt

\* C12: list all returns at most 100 workouts, latest createdAt first, and of
\* more than 100 stored the 100 with the latest createdAt; list custom does
\* the same with the workouts of type custom.
C12_ListsLatestFirst ==
  /\ req.op = "list_all" => LatestFirst(resp.body, before, DOMAIN before)
  /\ req.op = "list_custom" =>
       LatestFirst(resp.body, before, {o \in DOMAIN before : before[o].type = "custom"})

\* list all has left out the earliest of more than 100 workouts created at
\* different times
C12_Witness ==
  /\ req.op = "list_all"
  /\ Cardinality(DOMAIN before) > ListCap
  /\ Len(resp.body) = ListCap
  /\ resp.body[1].createdAt > resp.body[ListCap].createdAt
  /\ \E o \in DOMAIN before : before[o].createdAt < resp.body[ListCap].createdAt

\* the workouts of a list, and the stored workouts of a type as a list shows them
Listed(list) == {list[i] : i \in 1..Len(list)}
StoredOfType(coll, t) == {serialize_workout(o, coll[o]) : o \in {p \in DOMAIN coll : coll[p].type = t}}

\* C13: where the collection has at most 100 workouts of each type, list
\* predefined returns exactly the stored workouts of type predefined and list
\* custom exactly those of type custom; every stored workout has one of the
\* two types, the two lists are disjoint and every workout list all returns
\* is in one of them.
C13_ListsPartition ==
  ( /\ count_documents(workouts, "predefined") <= ListCap
    /\ count_documents(workouts, "custom") <= ListCap )
  => /\ \A o \in DOMAIN workouts : workouts[o].type \in WorkoutTypes
     /\ req.op = "list_predefined" =>
          /\ Listed(resp.body) = StoredOfType(workouts, "predefined")
          /\ Len(resp.body) = count_documents(workouts, "predefined")
     /\ req.op = "list_custom" =>
          /\ Listed(resp.body) = StoredOfType(workouts, "custom")
          /\ Len(resp.body) = count_documents(workouts, "custom")
     /\ req.op = "list_all" =>
          Listed(resp.body) \subseteq
            StoredOfType(workouts, "predefined") \cup StoredOfType(workouts, "custom")
     /\ \A tie \in TieOrders :
          LET predefined == Listed(get_predefined_workouts_out(workouts, nextId - 1))
              custom == Listed(get_custom_workouts_out(workouts, nextId - 1, tie))
              all == Listed(get_workouts_out(workouts, nextId - 1, tie))
          IN predefined \cap custom = {} /\ all \subseteq predefined \cup custom

\* list custom has returned the 100 custom workouts of a collection that
\* holds the catalog too
C13_Witness ==
  /\ req.op = "list_custom"
  /\ count_documents(workouts, "custom") = ListCap
  /\ count_documents(workouts, "predefined") = Len(predefined_workouts)
  /\ Len(resp.body) = ListCap
  /\ \A i \in 1..Len(resp.body) : resp.body[i].type = "custom"

\* C14: whichever handler was serving the request, a store access that
\* raised is answered with status 400.
C14_StoreErrorsCaught ==
  req.failed > 0 => resp.status = 400

\* C15 as claimed: the catalog is bulk-inserted at most once.
C15_SeededAtMostOnce == seedings <= 1

\* C15 amended: a start inserts the catalog only into a collection without
\* predefined workouts, so after the first seeding only once every
\* predefined workout has been deleted.
C15_SeededOnlyWithoutPredefined ==
  [][ /\ (req'.op = "startup" /\ workouts' # workouts)
           => count_documents(workouts, "predefined") = 0
      /\ seedings' # seedings
           => /\ req'.op = "startup" /\ seedings' = seedings + 1
              /\ count_documents(workouts, "predefined") = 0
              /\ seedings >= 1 =>
                   Cardinality({o \in deleted : born[o].type = "predefined"})
                     >= Len(predefined_workouts) ]_vars

\* a start has inserted the catalog a second time, after the deletes of the
\* four predefined workouts of the first
C15_Witness ==
  /\ req.op = "startup" /\ seedings = 2
  /\ count_documents(before, "predefined") = 0
  /\ count_documents(workouts, "predefined") = Len(predefined_workouts)
  /\ Cardinality({o \in deleted : born[o].type = "predefined"}) = Len(predefined_workouts)

\* C16: an update that update_one matched returns a workout, the one with
\* the addressed id, and each field the update provided has the provided
\* value; so has the response of every successful update.
C16_UpdateReturnsItsWrite ==
  /\ \A t \in Tasks :
       (tasks[t].op = "update" /\ tasks[t].pc = "returned") =>
         /\ tasks[t].result # None
         /\ tasks[t].result[1].id = IdStrings[ObjectId(tasks[t].id)[1]]
         /\ tasks[t].body.name # None => tasks[t].result[1].name = tasks[t].body.name[1]
         /\ tasks[t].body.splits # None =>
              ReadsAs(tasks[t].result[1].splits, tasks[t].body.splits[1])
  /\ (req.op = "update" /\ resp.status = 200) =>
       /\ resp.body # None
       /\ resp.body[1].id = IdStrings[ReqOid]
       /\ req.body.name # None => resp.body[1].name = req.body.name[1]
       /\ req.body.splits # None => ReadsAs(resp.body[1].splits, req.body.splits[1])

\* C17: once every seeding routine started on a collection that had no
\* predefined workout has ended (and no request has touched a predefined
\* workout), the number of predefined workouts is a positive multiple of
\* four, and it is four if no two routines ran at the same time.
C17_SeedingRace ==
  LET seeders == {t \in Tasks : tasks[t].op = "seed"}
      n == count_documents(workouts, "predefined")
  IN (seeders # {} /\ ~touched /\ \A t \in seeders : tasks[t].pc = "returned") =>
       /\ n > 0
       /\ n % 4 = 0
       /\ n = 4 * Cardinality({t \in seeders : tasks[t].count = 0})
       /\ (\A t \in seeders : ~tasks[t].overlapped) => n = 4

\* two routines have both read a count of 0 and both inserted the catalog:
\* eight predefined workouts
C17_Witness ==
  /\ \E t, u \in Tasks :
       /\ t # u
       /\ tasks[t].op = "seed" /\ tasks[t].pc = "returned" /\ tasks[t].count = 0
       /\ tasks[u].op = "seed" /\ tasks[u].pc = "returned" /\ tasks[u].count = 0
       /\ tasks[t].overlapped /\ tasks[u].overlapped
  /\ count_documents(workouts, "predefined") = 8
  /\ seedings = 2

====
